---- MODULE Spec2Model ----
(***************************************************************************)
(* Model of the bulk synchronization route, src/app/routes/app._index.jsx: *)
(* the route action (start request / status query), the background run     *)
(* processVariantsInBackground and the concurrency helper parallelLimit.   *)
(*                                                                         *)
(* JavaScript runs one continuation at a time: every action below is the   *)
(* code executed between two suspension points (await of an upstream       *)
(* call, of the timer, or of parallelLimit).                               *)
(***************************************************************************)
EXTENDS Integers, Sequences, FiniteSets, TLC

\* ------------------------------------------------------------ bounds
\* Largest catalog (number of variants the upstream enumerates).
MaxItems == 5
\* Largest total-count estimate the upstream returns.
MaxEst == 5
\* Number of start requests accepted in one behaviour.
MaxRuns == 2
\* Standalone limiter: most tasks and largest limit handed to parallelLimit.
MaxTasks == 4
MaxLimit == 3
\* Page size and pool size of the run.  The source sets 50 and 5
\* (app._index.jsx lines 95-96); the model checks the same code with small
\* values so that full pages, short pages and a saturated pool all occur.
BATCH_SIZE == 2
CONCURRENCY_LIMIT == 2
\* Webhook: the longest stored snapshot a notification is still accepted
\* for.
MaxSnap == 3

VARIABLES
    bgRunning,          \* serverState.backgroundProcessing.isRunning
    progress,           \* serverState.variantUpdateProgress
    resp,               \* the last response the route action returned
    pc,                 \* position of processVariantsInBackground
    hasNextPage,        \* locals of processVariantsInBackground
    cursor,
    processedVariants,
    errors,
    batchCount,
    totalVariants,
    variantsData,       \* the page the current batch works on
    pl,                 \* the state of the parallelLimit call in progress
    catalog,            \* upstream: number of variants pagination enumerates
    unitless,           \* upstream: the variant whose inventoryItem is null
                        \* (0: every variant has one)
    runs,               \* logical clock: number of runs accepted so far
    fetched,            \* pages whose fetch was issued in the current run
    active,             \* executions of processVariantsInBackground past
                        \* the guard of line 67 and not yet at line 365
    admitted,           \* item tasks the limiter started in the current run
    summaries,          \* status responses that carried the summary of the
                        \* current run
    stored,             \* upstream: the custom.locations metafield of the
                        \* item the notifications are about
    hnd,                \* the webhook request being handled
                        \* (utils/inventory.jsx)
    hnd2,               \* a second webhook request handled at the same
                        \* time as the first
    notes,              \* the payloads the two requests arrived with
    writes              \* the variants of the batch in progress for which
                        \* the metafieldsSet mutation of line 237 was sent

vars == << bgRunning, progress, resp, pc, hasNextPage, cursor,
           processedVariants, errors, batchCount, totalVariants,
           variantsData, pl, catalog, unitless, stored, hnd, hnd2, notes, writes, runs, summaries, fetched, active, admitted >>

Min(a, b) == IF a <= b THEN a ELSE b

\* ------------------------------------------------------------ values
\* An unassigned slot of the results array.
Hole == [success |-> FALSE, variantId |-> 0, type |-> "hole"]
\* The three outcomes of an item task (lines 258-274).
OkResult(id) == [success |-> TRUE, variantId |-> id, type |-> "ok"]
UserErrorResult(id) == [success |-> FALSE, variantId |-> id, type |-> "userError"]
ApiErrorResult(id) == [success |-> FALSE, variantId |-> id, type |-> "apiError"]

\* Error records pushed to errors (lines 290-294, 300-304, 324-328).
ItemErrorInfo(result) == [type |-> result.type, variantId |-> result.variantId, batch |-> 0]
BatchErrorInfo(b) == [type |-> "batchError", variantId |-> 0, batch |-> b]

NoSummary == [present |-> FALSE, success |-> FALSE, processedVariants |-> 0,
              totalVariants |-> 0, batchCount |-> 0]

\* global.variantUpdateProgress as first created (lines 22-30); 0 stands for
\* a null or absent timestamp.
InitialProgress ==
    [processedVariants |-> 0, totalVariants |-> 0, isProcessing |-> FALSE,
     currentBatch |-> 0, errors |-> << >>, startedAt |-> 0, completedAt |-> 0,
     summary |-> NoSummary, summaryReturned |-> FALSE]

\* Variant of ResetProgress: the counters of the old tracker are reset in
\* place and the rest of it is kept.
ResetProgressInPlace(now) ==
    [progress EXCEPT !.processedVariants = 0, !.totalVariants = 0,
                     !.isProcessing = TRUE, !.currentBatch = 0,
                     !.errors = << >>, !.startedAt = now]

\* Variant of ResetProgress: the tracker is installed with isProcessing
\* false, to be raised only once the first page is requested.
ResetProgressNotProcessing(now) ==
    [processedVariants |-> 0, totalVariants |-> 0, isProcessing |-> FALSE,
     currentBatch |-> 0, errors |-> << >>, startedAt |-> now, completedAt |-> 0,
     summary |-> NoSummary, summaryReturned |-> FALSE]

\* The tracker a run installs (lines 83-92); now is the logical time.
ResetProgress(now) ==
    [processedVariants |-> 0, totalVariants |-> 0, isProcessing |-> TRUE,
     currentBatch |-> 0, errors |-> << >>, startedAt |-> now, completedAt |-> 0,
     summary |-> NoSummary, summaryReturned |-> FALSE]

NoResp == [kind |-> "none", success |-> FALSE, actionCompleted |-> FALSE]
\* The response of lines 400-403.
AlreadyRunningResp == [kind |-> "alreadyRunning", success |-> FALSE, actionCompleted |-> FALSE]
NoPage == [items |-> << >>, hasNextPage |-> FALSE, endCursor |-> 0]

\* ------------------------------------------------------------ parallelLimit
\* The state of a parallelLimit call: n = tasks.length, i and results as in
\* the code, one entry of workers per chain of next() calls (the task it
\* awaits and the task's position), and the order in which tasks were
\* started and finished.
\* No parallelLimit call in progress.
NoPL == [n |-> 0, limit |-> 0, i |-> 0, results |-> << >>, workers |-> << >>,
         started |-> << >>, finished |-> << >>]

\* next() (lines 55-60) up to its await: past the end the chain returns,
\* otherwise it takes idx = i++ and calls tasks[idx](), which runs to the
\* task's first await (position st0[idx]).
\* Variant of PLNext: idx = i without the increment, so the same task is
\* taken again.
PLNextAgain(p, w, st0) ==
    IF p.i >= p.n
    THEN [p EXCEPT !.workers[w] = [idx |-> 0, st |-> "done"]]
    ELSE [p EXCEPT !.workers[w] = [idx |-> p.i + 1, st |-> st0[p.i + 1]],
                   !.started = Append(p.started, p.i + 1)]

PLNext(p, w, st0) ==
    IF p.i >= p.n
    THEN [p EXCEPT !.workers[w] = [idx |-> 0, st |-> "done"]]
    ELSE [p EXCEPT !.i = p.i + 1,
                   !.workers[w] = [idx |-> p.i + 1, st |-> st0[p.i + 1]],
                   !.started = Append(p.started, p.i + 1)]

RECURSIVE PLSpawn(_, _, _)
PLSpawn(p, w, st0) ==
    IF w > Len(p.workers) THEN p ELSE PLSpawn(PLNext(p, w, st0), w + 1, st0)

\* Variant of PLStart: one chain per task, the limit ignored.
PLStartAll(n, limit, st0) ==
    PLSpawn([n |-> n, limit |-> limit, i |-> 0,
             results |-> [j \in 1..n |-> Hole],
             workers |-> [w \in 1..n |-> [idx |-> 0, st |-> "new"]],
             started |-> << >>, finished |-> << >>], 1, st0)

\* parallelLimit(tasks, limit) (lines 52-61) up to the await of Promise.all:
\* min(limit, tasks.length) chains are started, one after the other.
PLStart(n, limit, st0) ==
    PLSpawn([n |-> n, limit |-> limit, i |-> 0,
             results |-> [j \in 1..n |-> Hole],
             workers |-> [w \in 1..Min(limit, n) |-> [idx |-> 0, st |-> "new"]],
             started |-> << >>, finished |-> << >>], 1, st0)

\* Variant of PLComplete: results.push(result), the results in completion
\* order.
PLCompletePush(p, w, result, st0) ==
    PLNext([p EXCEPT !.results[Len(p.finished) + 1] = result,
                     !.finished = Append(@, p.workers[w].idx)], w, st0)

\* A task resolved (lines 58-59): its result is stored at its own index and
\* the chain goes on with next().
PLComplete(p, w, result, st0) ==
    PLNext([p EXCEPT !.results[p.workers[w].idx] = result,
                     !.finished = Append(@, p.workers[w].idx)], w, st0)

\* A task rejected: the await of line 58 throws, the chain rejects and takes
\* no further task.
PLReject(p, w) ==
    [p EXCEPT !.workers[w].st = "rejected",
              !.finished = Append(@, p.workers[w].idx)]

\* Promise.all (line 61): rejected as soon as one chain rejects, resolved
\* when every chain returned.
PLOutcome(p) ==
    IF \E w \in DOMAIN p.workers : p.workers[w].st = "rejected" THEN "rejected"
    ELSE IF \A w \in DOMAIN p.workers : p.workers[w].st = "done" THEN "resolved"
    ELSE "pending"

\* Tasks started and not finished.
InFlight(p) ==
    {w \in DOMAIN p.workers : p.workers[w].st \in {"fetch", "write", "call", "nounit"}}

\* results.length of the sparse array.
ResultsLength(p) ==
    IF \A j \in DOMAIN p.results : p.results[j] = Hole THEN 0
    ELSE CHOOSE j \in DOMAIN p.results :
            /\ p.results[j] # Hole
            /\ \A k \in DOMAIN p.results : k > j => p.results[k] = Hole

\* ------------------------------------------------------------ upstream
\* Variant of PageAfter: the page size does not account for the cursor.
PageAfterNoCursor(c, N) ==
    [items |-> [k \in 1..Min(BATCH_SIZE, N) |-> c + k],
     hasNextPage |-> c + BATCH_SIZE < N,
     endCursor |-> Min(c + BATCH_SIZE, N)]

\* Variant of PageAfter: a page that ends exactly at the last variant still
\* announces a next page.
PageAfterOffByOne(c, N) ==
    [items |-> [k \in 1..Min(BATCH_SIZE, N - c) |-> c + k],
     hasNextPage |-> c + BATCH_SIZE <= N,
     endCursor |-> Min(c + BATCH_SIZE, N)]

\* The page after cursor c of a catalog of N variants (lines 137-163).
\* Variants are numbered 1..N; the cursor is the number of the last variant
\* of the previous page.
PageAfter(c, N) ==
    [items |-> [k \in 1..Min(BATCH_SIZE, N - c) |-> c + k],
     hasNextPage |-> c + BATCH_SIZE < N,
     endCursor |-> Min(c + BATCH_SIZE, N)]

\* ------------------------------------------------------------ summary and fold
\* Lines 336-345 followed by the finally of line 365.
Summary(processed, total, batches) ==
    [present |-> TRUE, success |-> TRUE, processedVariants |-> processed,
     totalVariants |-> total, batchCount |-> batches]

\* Variant of Finalize: isProcessing is left as it was.
FinalizeStillProcessing(pr, now, processed, total, batches) ==
    [pr EXCEPT !.completedAt = now,
               !.summary = Summary(processed, total, batches)]

Finalize(pr, now, processed, total, batches) ==
    [pr EXCEPT !.isProcessing = FALSE,
               !.completedAt = now,
               !.summary = Summary(processed, total, batches)]

\* Variant of Counted: only successful results are counted.
CountedSuccesses(results) == {j \in DOMAIN results : results[j].success}

\* results.forEach (lines 283-311): the results that are counted, and the
\* error records they add.
Counted(results) == {j \in DOMAIN results : results[j] # Hole}

RECURSIVE FoldErrors(_, _)
FoldErrors(results, j) ==
    IF j > Len(results) THEN << >>
    ELSE IF results[j] # Hole /\ ~results[j].success
              /\ results[j].type \in {"userError", "apiError"}
         THEN << ItemErrorInfo(results[j]) >> \o FoldErrors(results, j + 1)
         ELSE FoldErrors(results, j + 1)

\* ------------------------------------------------------------ webhook values
\* JavaScript values that the handler compares and converts: a number, the
\* decimal string of a number, a value that is neither (null, undefined,
\* "abc"), and NaN.
Num(v) == [t |-> "num", v |-> v]
Str(v) == [t |-> "str", v |-> v]
NonNumeric == [t |-> "other", v |-> 0]
NaN == [t |-> "nan", v |-> 0]

\* parseInt(x) and parseInt(x, 10) on these values.
ParseInt(x) == IF x.t \in {"num", "str"} THEN Num(x.v) ELSE NaN
\* x || 0 on a number or NaN.
OrZero(x) == IF x = NaN \/ x = Num(0) THEN 0 ELSE x.v
\* a === b: no conversion, so a string never equals a number.
StrictEquals(a, b) == a.t = b.t /\ a.v = b.v

\* The locations of the shop, and the quantities a level or a notification
\* carries: zero, which || 0 treats as missing, and a non-zero one.
Locs == {1, 2}
Quantities == {0, 1}

\* The notification bodies (line 203): location_id a number or a numeric
\* string, available a number, a numeric string or neither.
Payloads ==
    [location_id : {Num(l) : l \in Locs} \cup {Str(l) : l \in Locs},
     available : {Num(q) : q \in Quantities} \cup {Str(q) : q \in Quantities}
                    \cup {NonNumeric}]
NoPayload == [location_id |-> NonNumeric, available |-> NonNumeric]

\* The inventoryLevels.edges the upstream can answer with: the locations of
\* one listing are distinct.
Listings ==
    UNION {{e \in [1..n -> [location : Locs, quantity : Quantities]] :
               \A i, j \in 1..n : i # j => e[i].location # e[j].location}
           : n \in 0..Cardinality(Locs)}

\* The metafield of the item: missing (or with an empty value), a value
\* JSON.parse rejects, a JSON value without a locations array, or a
\* snapshot {locations: [...]}.  A record of a snapshot carries id and
\* available; name and updatedAt, which no step reads back, are left out.
NoMetafield == [kind |-> "absent", locs |-> << >>]
UnparseableValue == [kind |-> "garbage", locs |-> << >>]
NoLocationsValue == [kind |-> "noloc", locs |-> << >>]

\* JSON.stringify(currentData) and JSON.parse(value), the latter for the
\* values it accepts.
JSONStringify(data) ==
    [kind |-> IF data.hasLocations THEN "snap" ELSE "noloc", locs |-> data.locations]
JSONParse(value) ==
    [hasLocations |-> value.kind = "snap", locations |-> value.locs]
NoData == [hasLocations |-> FALSE, locations |-> << >>]

\* A webhook request: pc is the await it stands at, status the HTTP status
\* answered (0: none yet), error the message of the error thrown.  read,
\* edges and wrote record what the metafield read, the bootstrap query and
\* the write returned.
IdleHandler ==
    [pc |-> "idle", payload |-> NoPayload, currentData |-> NoData,
     metafieldsEmpty |-> FALSE, status |-> 0, error |-> "",
     read |-> "none", edges |-> -1, wrote |-> "none"]

\* No notification has arrived at either request.
NoNotes == [first |-> NoPayload, second |-> NoPayload]

\* ------------------------------------------------------------ Init
Init ==
    /\ bgRunning = FALSE
    /\ progress = InitialProgress
    /\ resp = NoResp
    /\ pc = "idle"
    /\ hasNextPage = FALSE
    /\ cursor = 0
    /\ processedVariants = 0
    /\ errors = << >>
    /\ batchCount = 0
    /\ totalVariants = 0
    /\ variantsData = NoPage
    /\ pl = NoPL
    /\ catalog \in 0..MaxItems
    /\ unitless \in {0, catalog}
    /\ stored = NoMetafield
    /\ hnd = IdleHandler
    /\ hnd2 = IdleHandler
    /\ notes = NoNotes
    /\ writes = {}
    /\ summaries = 0
    /\ runs = 0
    /\ fetched = 0
    /\ active = 0
    /\ admitted = 0

\* ------------------------------------------------------------ route action
\* action, intent # getProgress, no run in progress (lines 399, 406-432),
\* with the synchronous head of processVariantsInBackground (lines 66-117):
\* the guard, the flag, the reset tracker and the count query issued.
\* Variant of StartGuard: the flag is not consulted.
StartGuardMissing == TRUE

\* The guard of a start request (lines 399 and 67).
StartGuard == ~bgRunning

StartAccepted ==
    /\ StartGuard
    /\ runs < MaxRuns
    /\ active' = active + 1
    /\ admitted' = 0
    /\ runs' = runs + 1
    /\ bgRunning' = TRUE
    /\ progress' = ResetProgress(runs + 1)
    /\ hasNextPage' = TRUE
    /\ cursor' = 0
    /\ processedVariants' = 0
    /\ errors' = << >>
    /\ batchCount' = 0
    /\ totalVariants' = 0
    /\ fetched' = 0
    /\ pc' = "count"
    /\ resp' = [kind |-> "started", success |-> TRUE, actionCompleted |-> FALSE]
    /\ summaries' = 0
    /\ UNCHANGED << variantsData, pl, catalog, unitless, stored, hnd, hnd2, notes, writes >>

\* Variant of StartRejected: the tracker is re-initialised (line 408) before
\* the flag is looked at.
StartRejectedResets ==
    /\ bgRunning
    /\ resp' = AlreadyRunningResp
    /\ progress' = ResetProgress(progress.startedAt)
    /\ UNCHANGED << bgRunning, pc, hasNextPage, cursor,
                    processedVariants, errors, batchCount, totalVariants,
                    variantsData, pl, catalog, unitless, stored, hnd, hnd2, notes, writes, runs, summaries, fetched, active, admitted >>

\* action, intent # getProgress, a run in progress (lines 399-404).
StartRejected ==
    /\ bgRunning
    /\ resp' = AlreadyRunningResp
    /\ UNCHANGED << bgRunning, progress, pc, hasNextPage, cursor,
                    processedVariants, errors, batchCount, totalVariants,
                    variantsData, pl, catalog, unitless, stored, hnd, hnd2, notes, writes, runs, summaries, fetched, active, admitted >>

\* The two bodies a status query answers with (lines 388-395): the tracker
\* with actionCompleted and the fields of the summary spread over it, or the
\* tracker alone, in which the summary stays as the nested object and there
\* is no top-level success (FALSE stands for the absent field).
SummaryResp(pr) ==
    [kind |-> "progress", success |-> pr.summary.success,
     actionCompleted |-> TRUE, summary |-> pr.summary]
PlainResp(pr) ==
    [kind |-> "progress", success |-> FALSE,
     actionCompleted |-> FALSE, summary |-> pr.summary]

\* Variant of SummaryDue: the one-shot flag is not consulted.
SummaryDueUnflagged(pr) == ~pr.isProcessing /\ pr.completedAt # 0

\* The condition of line 386.
SummaryDue(pr) == ~pr.isProcessing /\ pr.completedAt # 0 /\ ~pr.summaryReturned

\* action, intent = getProgress (lines 376-396).
GetProgress ==
    /\ IF SummaryDue(progress)
       THEN /\ progress' = [progress EXCEPT !.summaryReturned = TRUE]
            /\ resp' = SummaryResp(progress')
            /\ summaries' = summaries + 1
       ELSE /\ progress' = progress
            /\ resp' = PlainResp(progress)
            /\ summaries' = summaries
    /\ UNCHANGED << bgRunning, pc, hasNextPage, cursor, processedVariants,
                    errors, batchCount, totalVariants, variantsData, pl,
                    catalog, unitless, stored, hnd, hnd2, notes, writes, runs, fetched, active, admitted >>

\* ------------------------------------------------------------ the run
\* Every statement of lines 74-348 that can throw stands in one of the inner
\* try blocks (lines 100-128, 135-333, 171-275), so the outer catch of lines
\* 349-363 is not entered and has no action here; the finally of line 365
\* is part of the two actions that end the run.
RunVarsKept == << bgRunning, resp, catalog, unitless, stored, hnd, hnd2, notes, writes, runs, summaries, active, admitted >>

\* The head of the while loop (lines 130-156): the batch is counted and the
\* page after the cursor is requested.
LoopHead(pr) ==
    /\ batchCount' = batchCount + 1
    /\ progress' = [pr EXCEPT !.currentBatch = batchCount + 1]
    /\ fetched' = fetched + 1
    /\ pc' = "page"

\* The count query answered with estimate e (lines 117-124); 0 is falsy and
\* leaves the total unknown.
RunCountOk ==
    /\ pc = "count"
    /\ \E e \in 0..MaxEst :
          /\ totalVariants' = IF e # 0 THEN e ELSE totalVariants
          /\ LoopHead([progress EXCEPT !.totalVariants =
                          IF e # 0 THEN e ELSE progress.totalVariants])
    /\ UNCHANGED << RunVarsKept, hasNextPage, cursor, processedVariants,
                    errors, variantsData, pl >>

\* The count query failed (lines 125-128): the run goes on without a total.
RunCountFail ==
    /\ pc = "count"
    /\ LoopHead(progress)
    /\ UNCHANGED << RunVarsKept, hasNextPage, cursor, processedVariants,
                    errors, totalVariants, variantsData, pl >>

\* Where the task of each variant of a page stops first (lines 168-196): at
\* the await of the inventory query, or, when variant.inventoryItem is null,
\* at once: evaluating variant.inventoryItem.id in line 195 throws inside
\* the try, no query is sent and the task resolves through the catch.
TaskStarts(items) ==
    [k \in DOMAIN items |-> IF items[k] = unitless THEN "nounit" ELSE "fetch"]

\* The page arrived (lines 156-280): one task per variant of the page, and
\* parallelLimit starts the first of them.
RunPageOk ==
    /\ pc = "page"
    /\ variantsData' = PageAfter(cursor, catalog)
    /\ pl' = PLStart(Len(variantsData'.items), CONCURRENCY_LIMIT,
                     TaskStarts(variantsData'.items))
    /\ pc' = "tasks"
    /\ admitted' = admitted + Len(pl'.started)
    /\ UNCHANGED << bgRunning, resp, catalog, unitless, stored, hnd, hnd2, notes, writes, runs, summaries, active, progress, hasNextPage, cursor,
                    processedVariants, errors, batchCount, totalVariants, fetched >>

\* Variant of RunPageFail: the catch records the error and leaves
\* hasNextPage alone, so the loop goes on to another fetch.
RunPageFailSkips ==
    /\ pc = "page"
    /\ errors' = Append(errors, BatchErrorInfo(batchCount))
    /\ batchCount < MaxItems + 2
    /\ LoopHead([progress EXCEPT !.errors = Append(@, BatchErrorInfo(batchCount))])
    /\ UNCHANGED << RunVarsKept, hasNextPage, cursor, processedVariants,
                    totalVariants, variantsData, pl >>

\* Variant of RunPageFail: the run ends without the finally of line 365.
RunPageFailKeepsFlag ==
    /\ pc = "page"
    /\ errors' = Append(errors, BatchErrorInfo(batchCount))
    /\ hasNextPage' = FALSE
    /\ progress' = Finalize([progress EXCEPT !.errors = Append(@, BatchErrorInfo(batchCount))],
                            runs, processedVariants, totalVariants, batchCount)
    /\ pc' = "idle"
    /\ UNCHANGED << bgRunning, active, resp, catalog, unitless, stored, hnd, hnd2, notes, writes, runs,
                    summaries, cursor, processedVariants, batchCount,
                    totalVariants, variantsData, pl, fetched, admitted >>

\* The page fetch failed or answered with errors (lines 156-161): the catch
\* of lines 323-333 records the batch error and clears hasNextPage, the loop
\* ends, and lines 336-348 and 365 finish the run.
RunPageFail ==
    /\ pc = "page"
    /\ errors' = Append(errors, BatchErrorInfo(batchCount))
    /\ hasNextPage' = FALSE
    /\ progress' = Finalize([progress EXCEPT !.errors = Append(@, BatchErrorInfo(batchCount))],
                            runs, processedVariants, totalVariants, batchCount)
    /\ bgRunning' = FALSE
    /\ active' = active - 1
    /\ pc' = "idle"
    /\ UNCHANGED << resp, catalog, unitless, stored, hnd, hnd2, notes, writes, runs, summaries, cursor, processedVariants, batchCount,
                    totalVariants, variantsData, pl, fetched, admitted >>

\* The variant the task at index idx of the batch works on.
VariantOf(idx) == variantsData.items[idx]

TaskVarsKept == << bgRunning, progress, resp, pc, hasNextPage, cursor,
                   processedVariants, errors, batchCount, totalVariants,
                   variantsData, catalog, unitless, stored, hnd, hnd2, notes, runs, summaries, fetched, active >>

\* The tasks a step of the limiter started.
CountAdmitted == admitted' = admitted + Len(pl'.started) - Len(pl.started)

\* An item task: its inventory levels arrived (lines 194-237) and the
\* metafield write is issued.
TaskFetchOk(w) ==
    /\ pc = "tasks"
    /\ pl.workers[w].st = "fetch"
    /\ pl' = [pl EXCEPT !.workers[w].st = "write"]
    /\ writes' = writes \cup {VariantOf(pl.workers[w].idx)}
    /\ CountAdmitted
    /\ UNCHANGED TaskVarsKept

\* Variant of TaskFetchFail: the write is sent, with what the failed answer
\* holds, before the apiError is returned.
TaskFetchFailWrites(w) ==
    /\ pc = "tasks"
    /\ pl.workers[w].st = "fetch"
    /\ pl' = PLComplete(pl, w, ApiErrorResult(VariantOf(pl.workers[w].idx)), TaskStarts(variantsData.items))
    /\ writes' = writes \cup {VariantOf(pl.workers[w].idx)}
    /\ CountAdmitted
    /\ UNCHANGED TaskVarsKept

\* Variant of TaskFetchFail: the failure escapes the task.
TaskFetchFailThrows(w) ==
    /\ pc = "tasks"
    /\ pl.workers[w].st = "fetch"
    /\ pl' = PLReject(pl, w)
    /\ CountAdmitted
    /\ UNCHANGED << writes, TaskVarsKept >>

\* An item task: the inventory query failed or answered with errors
\* (lines 194-201); the task returns an apiError (lines 268-275).
TaskFetchFail(w) ==
    /\ pc = "tasks"
    /\ pl.workers[w].st = "fetch"
    /\ pl' = PLComplete(pl, w, ApiErrorResult(VariantOf(pl.workers[w].idx)), TaskStarts(variantsData.items))
    /\ CountAdmitted
    /\ UNCHANGED << writes, TaskVarsKept >>

\* An item task whose variant has no inventoryItem: the TypeError of line
\* 195 is caught and the task returns an apiError (lines 268-275).
TaskNoUnit(w) ==
    /\ pc = "tasks"
    /\ pl.workers[w].st = "nounit"
    /\ pl' = PLComplete(pl, w, ApiErrorResult(VariantOf(pl.workers[w].idx)), TaskStarts(variantsData.items))
    /\ CountAdmitted
    /\ UNCHANGED << writes, TaskVarsKept >>

\* An item task: the write succeeded (lines 251-267).
TaskWriteOk(w) ==
    /\ pc = "tasks"
    /\ pl.workers[w].st = "write"
    /\ pl' = PLComplete(pl, w, OkResult(VariantOf(pl.workers[w].idx)), TaskStarts(variantsData.items))
    /\ CountAdmitted
    /\ UNCHANGED << writes, TaskVarsKept >>

\* An item task: the write answered with userErrors (lines 257-263).
TaskWriteUserError(w) ==
    /\ pc = "tasks"
    /\ pl.workers[w].st = "write"
    /\ pl' = PLComplete(pl, w, UserErrorResult(VariantOf(pl.workers[w].idx)), TaskStarts(variantsData.items))
    /\ CountAdmitted
    /\ UNCHANGED << writes, TaskVarsKept >>

\* An item task: the write failed in transport or answered with errors
\* (lines 237-255, 268-275).
TaskWriteFail(w) ==
    /\ pc = "tasks"
    /\ pl.workers[w].st = "write"
    /\ pl' = PLComplete(pl, w, ApiErrorResult(VariantOf(pl.workers[w].idx)), TaskStarts(variantsData.items))
    /\ CountAdmitted
    /\ UNCHANGED << writes, TaskVarsKept >>

\* Variant of RunFold: with a next page announced, the next turn of the loop
\* starts at once, without the delay of lines 318-321.
RunFoldNoDelay ==
    /\ pc = "tasks"
    /\ PLOutcome(pl) = "resolved"
    /\ LET processed == processedVariants + Cardinality(Counted(pl.results))
           added == FoldErrors(pl.results, 1)
           folded == [progress EXCEPT
                        !.processedVariants =
                            IF Counted(pl.results) = {} THEN @ ELSE processed,
                        !.errors = @ \o added]
       IN /\ processedVariants' = processed
          /\ errors' = errors \o added
          /\ hasNextPage' = variantsData.hasNextPage
          /\ cursor' = variantsData.endCursor
          /\ IF variantsData.hasNextPage
             THEN /\ LoopHead(folded)
                  /\ UNCHANGED << bgRunning, active >>
             ELSE /\ progress' = Finalize(folded, runs, processed, totalVariants, batchCount)
                  /\ pc' = "idle"
                  /\ bgRunning' = FALSE
                  /\ active' = active - 1
                  /\ UNCHANGED << batchCount, fetched >>
    /\ pl' = NoPL
    /\ variantsData' = NoPage
    /\ writes' = {}
    /\ UNCHANGED << resp, catalog, unitless, stored, hnd, hnd2, notes, runs, summaries,
                    totalVariants, admitted >>

\* parallelLimit returned (line 280): the results are folded into the
\* tracker (lines 283-311), pagination advances (lines 314-315), and the run
\* either waits for the next batch (lines 318-321) or finishes
\* (lines 336-348, 365).
RunFold ==
    /\ pc = "tasks"
    /\ PLOutcome(pl) = "resolved"
    /\ LET processed == processedVariants + Cardinality(Counted(pl.results))
           added == FoldErrors(pl.results, 1)
           folded == [progress EXCEPT
                        !.processedVariants =
                            IF Counted(pl.results) = {} THEN @ ELSE processed,
                        !.errors = @ \o added]
       IN /\ processedVariants' = processed
          /\ errors' = errors \o added
          /\ hasNextPage' = variantsData.hasNextPage
          /\ cursor' = variantsData.endCursor
          /\ IF variantsData.hasNextPage
             THEN /\ progress' = folded
                  /\ pc' = "delay"
                  /\ UNCHANGED << bgRunning, active >>
             ELSE /\ progress' = Finalize(folded, runs, processed, totalVariants, batchCount)
                  /\ pc' = "idle"
                  /\ bgRunning' = FALSE
                  /\ active' = active - 1
    /\ pl' = NoPL
    /\ variantsData' = NoPage
    /\ writes' = {}
    /\ UNCHANGED << resp, catalog, unitless, stored, hnd, hnd2, notes, runs, summaries, batchCount, totalVariants, fetched,
                    admitted >>

\* The inter-batch delay elapsed (line 320): next turn of the loop.
RunDelayDone ==
    /\ pc = "delay"
    /\ LoopHead(progress)
    /\ UNCHANGED << RunVarsKept, hasNextPage, cursor, processedVariants,
                    errors, totalVariants, variantsData, pl >>

Next ==
    \/ StartAccepted
    \/ StartRejected
    \/ GetProgress
    \/ RunCountOk
    \/ RunCountFail
    \/ RunPageOk
    \/ RunPageFail
    \/ \E w \in DOMAIN pl.workers : TaskFetchOk(w)
    \/ \E w \in DOMAIN pl.workers : TaskFetchFail(w)
    \/ \E w \in DOMAIN pl.workers : TaskWriteOk(w)
    \/ \E w \in DOMAIN pl.workers : TaskWriteUserError(w)
    \/ \E w \in DOMAIN pl.workers : TaskWriteFail(w)
    \/ \E w \in DOMAIN pl.workers : TaskNoUnit(w)
    \/ RunFold
    \/ RunDelayDone

Spec == Init /\ [][Next]_vars

\* The steps of processVariantsInBackground: every upstream call returns or
\* fails, every timer fires and every continuation is run, so a run that
\* can take a step eventually takes one.
RunStep ==
    \/ RunCountOk
    \/ RunCountFail
    \/ RunPageOk
    \/ RunPageFail
    \/ \E w \in DOMAIN pl.workers :
          \/ TaskFetchOk(w)
          \/ TaskFetchFail(w)
          \/ TaskNoUnit(w)
          \/ TaskWriteOk(w)
          \/ TaskWriteUserError(w)
          \/ TaskWriteFail(w)
    \/ RunFold
    \/ RunDelayDone

SpecLive == Spec /\ WF_vars(RunStep)

\* ------------------------------------------------------------ parallelLimit alone
\* parallelLimit called on n tasks with limit k.  A task of this
\* specification has one await and then resolves with its own result or
\* rejects.
\* Every task of this specification starts at its one await.
PlainStarts(n) == [j \in 1..n |-> "call"]

InitPL ==
    /\ bgRunning = FALSE
    /\ progress = InitialProgress
    /\ resp = NoResp
    /\ pc = "limiter"
    /\ hasNextPage = FALSE
    /\ cursor = 0
    /\ processedVariants = 0
    /\ errors = << >>
    /\ batchCount = 0
    /\ totalVariants = 0
    /\ variantsData = NoPage
    /\ pl \in {PLStart(n, k, PlainStarts(n)) : n \in 0..MaxTasks, k \in 1..MaxLimit}
    /\ catalog = 0
    /\ unitless = 0
    /\ stored = NoMetafield
    /\ hnd = IdleHandler
    /\ hnd2 = IdleHandler
    /\ notes = NoNotes
    /\ writes = {}
    /\ summaries = 0
    /\ runs = 0
    /\ fetched = 0
    /\ active = 0
    /\ admitted = 0

PLVarsKept == << bgRunning, progress, resp, pc, hasNextPage, cursor,
                 processedVariants, errors, batchCount, totalVariants,
                 variantsData, catalog, unitless, stored, hnd, hnd2, notes, writes, runs, summaries, fetched, active, admitted >>

\* A task resolves with its result.
PlainResolve(w) ==
    /\ pc = "limiter"
    /\ pl.workers[w].st = "call"
    /\ pl' = PLComplete(pl, w, OkResult(pl.workers[w].idx), PlainStarts(pl.n))
    /\ UNCHANGED PLVarsKept

\* A task throws or rejects.
PlainReject(w) ==
    /\ pc = "limiter"
    /\ pl.workers[w].st = "call"
    /\ pl' = PLReject(pl, w)
    /\ UNCHANGED PLVarsKept

NextPL ==
    \/ \E w \in DOMAIN pl.workers : PlainResolve(w)
    \/ \E w \in DOMAIN pl.workers : PlainReject(w)

SpecPL == InitPL /\ [][NextPL]_vars

\* ------------------------------------------------------------ webhook
\* utils/inventory.jsx: the webhook action (lines 175-200) and
\* handleInventoryUpdate (lines 202-397) for the notifications about one
\* item, next to the writes a full sync makes to the same item.
InitInv ==
    /\ bgRunning = FALSE
    /\ progress = InitialProgress
    /\ resp = NoResp
    /\ pc = "webhook"
    /\ hasNextPage = FALSE
    /\ cursor = 0
    /\ processedVariants = 0
    /\ errors = << >>
    /\ batchCount = 0
    /\ totalVariants = 0
    /\ variantsData = NoPage
    /\ pl = NoPL
    /\ catalog = 0
    /\ unitless = 0
    /\ stored \in {NoMetafield, UnparseableValue, NoLocationsValue}
    /\ hnd = IdleHandler
    /\ hnd2 = IdleHandler
    /\ notes = NoNotes
    /\ writes = {}
    /\ summaries = 0
    /\ runs = 0
    /\ fetched = 0
    /\ active = 0
    /\ admitted = 0

WebhookVarsKept == << bgRunning, progress, resp, pc, hasNextPage, cursor,
                      processedVariants, errors, batchCount, totalVariants,
                      variantsData, pl, catalog, unitless, runs, summaries,
                      fetched, active, admitted, hnd2, notes, writes >>

\* The request ends with an HTTP status: 401 from line 187, 200 from line
\* 195, or 500 from the catch of lines 196-199 with the error thrown.
Respond(h, status, error) ==
    [h EXCEPT !.pc = "done", !.payload = NoPayload, !.currentData = NoData,
              !.status = status, !.error = error]

\* action up to the first await of handleInventoryUpdate (lines 176-229):
\* the body is read, the request authenticated, the topic is
\* INVENTORY_LEVELS_UPDATE and the variant query is sent.
WebhookReceive ==
    /\ hnd.pc \in {"idle", "done"}
    /\ Len(stored.locs) < MaxSnap
    /\ \E p \in Payloads :
          hnd' = [IdleHandler EXCEPT !.pc = "variant", !.payload = p]
    /\ UNCHANGED << stored, WebhookVarsKept >>

\* action: no admin session (lines 184-188).
WebhookUnauthorized ==
    /\ hnd.pc \in {"idle", "done"}
    /\ hnd' = Respond(IdleHandler, 401, "")
    /\ UNCHANGED << stored, WebhookVarsKept >>

\* action: another topic (lines 190-195).
WebhookOtherTopic ==
    /\ hnd.pc \in {"idle", "done"}
    /\ hnd' = Respond(IdleHandler, 200, "")
    /\ UNCHANGED << stored, WebhookVarsKept >>

\* action: request.json() or authenticate.webhook throws (lines 178-181,
\* 196-199).
WebhookThrows ==
    /\ hnd.pc \in {"idle", "done"}
    /\ hnd' = Respond(IdleHandler, 500, "rejected")
    /\ UNCHANGED << stored, WebhookVarsKept >>

\* The variant query rejects (lines 224-231).
HandleVariantRejected ==
    /\ hnd.pc = "variant"
    /\ hnd' = Respond(hnd, 500, "rejected")
    /\ UNCHANGED << stored, WebhookVarsKept >>

\* Variant of HandleVariantNotFound: the error is noted but not thrown, and
\* the handler goes on as for a variant without metafield.
HandleVariantNotFoundGoesOn ==
    /\ hnd.pc = "variant"
    /\ hnd' = [hnd EXCEPT !.pc = "levels", !.metafieldsEmpty = TRUE,
                          !.error = "Variant not found"]
    /\ UNCHANGED << stored, WebhookVarsKept >>

\* The inventory item resolves to no variant (lines 231-236).
HandleVariantNotFound ==
    /\ hnd.pc = "variant"
    /\ hnd' = Respond(hnd, 500, "Variant not found")
    /\ UNCHANGED << stored, WebhookVarsKept >>

\* The request h after the variant came with the metafield value (lines
\* 231-274, 304-327): without a value the bootstrap query is sent;
\* otherwise the value goes through JSON.parse, whose SyntaxError nothing
\* catches before the webhook action, and the location query is sent.
VariantRead(h, value) ==
    IF value.kind = "absent"
    THEN [h EXCEPT !.pc = "levels", !.metafieldsEmpty = TRUE, !.read = "absent"]
    ELSE IF value.kind = "garbage"
    THEN Respond([h EXCEPT !.read = "garbage"], 500, "SyntaxError")
    ELSE [h EXCEPT !.pc = "locname", !.read = value.kind,
                   !.currentData = JSONParse(value)]

\* The variant came with its metafield (lines 231-274, 304-327).
HandleVariantRead ==
    /\ hnd.pc = "variant"
    /\ hnd' = VariantRead(hnd, stored)
    /\ UNCHANGED << stored, WebhookVarsKept >>

\* The bootstrap query rejects, or answers with errors (lines 268-282).
HandleLevelsFailed ==
    /\ hnd.pc = "levels"
    /\ \E e \in {"rejected", "Failed to fetch inventory levels."} :
          hnd' = Respond(hnd, 500, e)
    /\ UNCHANGED << stored, WebhookVarsKept >>

\* allLocations of lines 286-299.
FormatLevels(edges) ==
    [k \in DOMAIN edges |->
        [id |-> ParseInt(Str(edges[k].location)).v,
         available |-> OrZero(Num(edges[k].quantity))]]

\* The request h after the bootstrap query answered with edges (lines
\* 274-309, 352-382).  Lines 276-277 read edges[0].node and edges[1].node,
\* a TypeError when there are fewer than two edges.  With two or more,
\* allLocations is not empty, the condition of line 309 is false and the
\* write is sent.
LevelsAnswered(h, edges) ==
    IF Len(edges) < 2
    THEN Respond([h EXCEPT !.edges = Len(edges)], 500, "TypeError")
    ELSE [h EXCEPT !.pc = "write", !.edges = Len(edges),
                   !.currentData = [hasLocations |-> TRUE,
                                    locations |-> FormatLevels(edges)]]

\* The bootstrap query answered (lines 274-309, 352-382).
HandleLevelsAnswered ==
    /\ hnd.pc = "levels"
    /\ \E edges \in Listings : hnd' = LevelsAnswered(hnd, edges)
    /\ UNCHANGED << stored, WebhookVarsKept >>

\* The location query rejects (lines 322-327).
HandleLocationRejected ==
    /\ hnd.pc = "locname"
    /\ hnd' = Respond(hnd, 500, "rejected")
    /\ UNCHANGED << stored, WebhookVarsKept >>

\* locations.findIndex(loc => loc.id === location_id) (lines 334-336); 0
\* stands for -1.
FindIndex(locations, location_id) ==
    IF \E j \in DOMAIN locations : StrictEquals(Num(locations[j].id), location_id)
    THEN CHOOSE j \in DOMAIN locations :
            /\ StrictEquals(Num(locations[j].id), location_id)
            /\ \A k \in 1..(j - 1) : ~StrictEquals(Num(locations[k].id), location_id)
    ELSE 0

\* updatedLocation of lines 338-343.
UpdatedLocation(payload) ==
    [id |-> ParseInt(payload.location_id).v,
     available |-> OrZero(ParseInt(payload.available))]

\* Lines 334-349.
MergeLocation(data, payload) ==
    LET index == FindIndex(data.locations, payload.location_id)
    IN  IF index > 0
        THEN [data EXCEPT !.locations[index] = UpdatedLocation(payload)]
        ELSE [data EXCEPT !.locations = Append(@, UpdatedLocation(payload))]

\* The request h after the location query answered, with a name or
\* without (lines 327-382): currentData.locations.findIndex is a TypeError
\* when the parsed value has no locations; otherwise the record is merged
\* into the data the request read and the write is sent.
LocationAnswered(h) ==
    IF ~h.currentData.hasLocations
    THEN Respond(h, 500, "TypeError")
    ELSE [h EXCEPT !.pc = "write",
                   !.currentData = MergeLocation(h.currentData, h.payload)]

\* The location query answered (lines 327-382).
HandleLocationAnswered ==
    /\ hnd.pc = "locname"
    /\ hnd' = LocationAnswered(hnd)
    /\ UNCHANGED << stored, WebhookVarsKept >>

\* The write was applied (lines 370-397, 195).
HandleWriteOk ==
    /\ hnd.pc = "write"
    /\ stored' = JSONStringify(hnd.currentData)
    /\ hnd' = Respond([hnd EXCEPT !.wrote = "ok"], 200, "")
    /\ UNCHANGED WebhookVarsKept

\* The write answered with data.metafieldsSet.userErrors (lines 384-397):
\* the condition of line 387 reads data.metafieldSet, which the response
\* does not have, so nothing is thrown.
HandleWriteUserErrors ==
    /\ hnd.pc = "write"
    /\ hnd' = Respond([hnd EXCEPT !.wrote = "userErrors"], 200, "")
    /\ UNCHANGED << stored, WebhookVarsKept >>

\* The write answered with top-level errors (lines 384-394).
HandleWriteErrors ==
    /\ hnd.pc = "write"
    /\ hnd' = Respond([hnd EXCEPT !.wrote = "errors"], 500, "Failed to update metafield")
    /\ UNCHANGED << stored, WebhookVarsKept >>

\* The write rejects (lines 370-382).
HandleWriteRejected ==
    /\ hnd.pc = "write"
    /\ hnd' = Respond([hnd EXCEPT !.wrote = "rejected"], 500, "rejected")
    /\ UNCHANGED << stored, WebhookVarsKept >>

\* formattedLevels of a full-sync item task (app._index.jsx lines 206-217).
FormatInventoryLevels(edges) ==
    [k \in DOMAIN edges |->
        [id |-> ParseInt(Str(edges[k].location)).v,
         available |-> OrZero(Num(edges[k].quantity))]]

\* A full-sync item task writes the item's metafield (app._index.jsx lines
\* 194-267): the levels it fetched, whatever was stored.
FullSyncWrite ==
    /\ \E edges \in Listings :
          stored' = JSONStringify([hasLocations |-> TRUE,
                                   locations |-> FormatInventoryLevels(edges)])
    /\ UNCHANGED << hnd, WebhookVarsKept >>

NextInv ==
    \/ WebhookReceive
    \/ WebhookUnauthorized
    \/ WebhookOtherTopic
    \/ WebhookThrows
    \/ HandleVariantRejected
    \/ HandleVariantNotFound
    \/ HandleVariantRead
    \/ HandleLevelsFailed
    \/ HandleLevelsAnswered
    \/ HandleLocationRejected
    \/ HandleLocationAnswered
    \/ HandleWriteOk
    \/ HandleWriteUserErrors
    \/ HandleWriteErrors
    \/ HandleWriteRejected
    \/ FullSyncWrite

SpecInv == InitInv /\ [][NextInv]_vars

\* ------------------------------------------- two notifications at once
\* Two webhook requests for the same inventory item are in flight together:
\* each runs action and handleInventoryUpdate on its own locals (hnd, hnd2)
\* and both read and write the one metafield (stored).  The bodies carry
\* location_id and available as numbers, as the platform sends them.
RacePayloads ==
    {[location_id |-> Num(l), available |-> Num(q)] : l \in Locs, q \in Quantities}

\* The metafield before the two requests: absent, or the snapshot a full
\* sync wrote (app._index.jsx lines 206-249).
InitRace ==
    /\ bgRunning = FALSE
    /\ progress = InitialProgress
    /\ resp = NoResp
    /\ pc = "race"
    /\ hasNextPage = FALSE
    /\ cursor = 0
    /\ processedVariants = 0
    /\ errors = << >>
    /\ batchCount = 0
    /\ totalVariants = 0
    /\ variantsData = NoPage
    /\ pl = NoPL
    /\ catalog = 0
    /\ unitless = 0
    /\ stored \in {NoMetafield}
                  \cup {JSONStringify([hasLocations |-> TRUE,
                                       locations |-> FormatInventoryLevels(edges)])
                        : edges \in Listings}
    /\ hnd = IdleHandler
    /\ hnd2 = IdleHandler
    /\ notes = NoNotes
    /\ writes = {}
    /\ summaries = 0
    /\ runs = 0
    /\ fetched = 0
    /\ active = 0
    /\ admitted = 0

RaceVarsKept == << bgRunning, progress, resp, pc, hasNextPage, cursor,
                  processedVariants, errors, batchCount, totalVariants,
                  variantsData, pl, catalog, unitless, runs, summaries,
                  fetched, active, admitted, writes >>

\* action up to the first await of handleInventoryUpdate (lines 176-229),
\* for the request with locals h, hn after the step.
RaceReceive(h, hn) ==
    /\ h.pc = "idle"
    /\ \E p \in RacePayloads : hn = [h EXCEPT !.pc = "variant", !.payload = p]

\* The variant query returns (lines 224-236, 304-327): rejected, without a
\* variant, or with the metafield as it is stored at that moment.
RaceVariant(h, hn) ==
    /\ h.pc = "variant"
    /\ \/ \E e \in {"rejected", "Variant not found"} : hn = Respond(h, 500, e)
       \/ hn = VariantRead(h, stored)

\* The bootstrap query returns (lines 268-309).
RaceLevels(h, hn) ==
    /\ h.pc = "levels"
    /\ \/ \E e \in {"rejected", "Failed to fetch inventory levels."} :
             hn = Respond(h, 500, e)
       \/ \E edges \in Listings : hn = LevelsAnswered(h, edges)

\* The location query returns (lines 322-349).
RaceLocation(h, hn) ==
    /\ h.pc = "locname"
    /\ \/ hn = Respond(h, 500, "rejected")
       \/ hn = LocationAnswered(h)

\* The metafieldsSet mutation returns (lines 370-397): applied, which
\* replaces the whole value with the data of this request, or not.
RaceWrite(h, hn) ==
    /\ h.pc = "write"
    /\ \/ /\ hn = Respond([h EXCEPT !.wrote = "ok"], 200, "")
          /\ stored' = JSONStringify(h.currentData)
       \/ /\ \/ hn = Respond([h EXCEPT !.wrote = "userErrors"], 200, "")
             \/ hn = Respond([h EXCEPT !.wrote = "errors"], 500, "Failed to update metafield")
             \/ hn = Respond([h EXCEPT !.wrote = "rejected"], 500, "rejected")
          /\ stored' = stored

FirstReceive ==
    /\ RaceReceive(hnd, hnd')
    /\ notes' = [notes EXCEPT !.first = hnd'.payload]
    /\ UNCHANGED << stored, hnd2, RaceVarsKept >>

FirstVariant == RaceVariant(hnd, hnd') /\ UNCHANGED << stored, hnd2, notes, RaceVarsKept >>

FirstLevels == RaceLevels(hnd, hnd') /\ UNCHANGED << stored, hnd2, notes, RaceVarsKept >>

FirstLocation == RaceLocation(hnd, hnd') /\ UNCHANGED << stored, hnd2, notes, RaceVarsKept >>

FirstWrite == RaceWrite(hnd, hnd') /\ UNCHANGED << hnd2, notes, RaceVarsKept >>

SecondReceive ==
    /\ RaceReceive(hnd2, hnd2')
    /\ notes' = [notes EXCEPT !.second = hnd2'.payload]
    /\ UNCHANGED << stored, hnd, RaceVarsKept >>

SecondVariant == RaceVariant(hnd2, hnd2') /\ UNCHANGED << stored, hnd, notes, RaceVarsKept >>

SecondLevels == RaceLevels(hnd2, hnd2') /\ UNCHANGED << stored, hnd, notes, RaceVarsKept >>

SecondLocation == RaceLocation(hnd2, hnd2') /\ UNCHANGED << stored, hnd, notes, RaceVarsKept >>

SecondWrite == RaceWrite(hnd2, hnd2') /\ UNCHANGED << hnd, notes, RaceVarsKept >>

NextRace ==
    \/ FirstReceive
    \/ FirstVariant
    \/ FirstLevels
    \/ FirstLocation
    \/ FirstWrite
    \/ SecondReceive
    \/ SecondVariant
    \/ SecondLevels
    \/ SecondLocation
    \/ SecondWrite

SpecRace == InitRace /\ [][NextRace]_vars

\* ------------------------------------------------------------ properties
HasBatchError(errs) == \E j \in DOMAIN errs : errs[j].type = "batchError"

\* C1: a start request that arrives while a run is in progress is answered
\* with the "already running" result (success = false) and changes nothing:
\* the tracker, the running flag and the run itself stay as they are, and
\* no run is launched.
C1_RejectedStartMutatesNothing ==
    [][ /\ bgRunning => /\ runs' = runs
                        /\ active' <= active
                        /\ progress'.startedAt = progress.startedAt
        /\ (bgRunning /\ resp' # resp /\ resp'.kind # "progress")
              => /\ resp' = AlreadyRunningResp
                 /\ UNCHANGED << bgRunning, progress, pc, hasNextPage, cursor,
                                 processedVariants, errors, batchCount,
                                 totalVariants, variantsData, pl, runs,
                                 fetched, active, admitted >> ]_vars

C1_Witness ==
    /\ resp = AlreadyRunningResp
    /\ bgRunning
    /\ pc = "tasks"
    /\ progress.processedVariants > 0

\* C2: at most one execution of processVariantsInBackground is past the
\* running-flag guard at any time, and the flag is set exactly while one is.
C2_AtMostOneRun ==
    /\ active <= 1
    /\ bgRunning <=> active = 1
    /\ bgRunning <=> pc # "idle"

C2_Witness ==
    /\ active = 1
    /\ runs = 2
    /\ resp = AlreadyRunningResp

\* C3: a run whose page fetch failed is finalized with summary.success =
\* false: a batch error never comes with a summary of success = true.
C3_BatchErrorSummaryFails ==
    (progress.summary.present /\ HasBatchError(progress.errors))
        => ~progress.summary.success

\* A batchError in the tracker is its last record, carries the number of the
\* last page requested, and the run is over with no task of that page
\* started.
C4_PageFailureState ==
    \A j \in DOMAIN progress.errors :
        progress.errors[j].type = "batchError" =>
            /\ j = Len(progress.errors)
            /\ progress.errors[j] = BatchErrorInfo(fetched)
            /\ errors = progress.errors
            /\ pc = "idle"
            /\ pl = NoPL
            /\ admitted = BATCH_SIZE * (fetched - 1)
            /\ ~progress.isProcessing
            /\ progress.completedAt # 0
            /\ ~bgRunning

\* The step that ends a page fetch without starting tasks.
C4_PageFailureStep ==
    (pc = "page" /\ (pc' = "idle" \/ progress'.errors # progress.errors)) =>
        /\ progress'.errors = Append(progress.errors, BatchErrorInfo(fetched))
        /\ fetched' = fetched
        /\ admitted' = admitted
        /\ pc' = "idle"

\* C4: when the fetch of page k fails, exactly one batchError tagged k is
\* appended to errors, no task of page k runs, no later page is fetched and
\* the run is finalized at once (not processing, completedAt set, flag
\* cleared).
C4_PageFailureEndsRun == [] C4_PageFailureState /\ [][C4_PageFailureStep]_vars

C4_Witness ==
    /\ HasBatchError(progress.errors)
    /\ fetched = 2
    /\ catalog = MaxItems
    /\ admitted = BATCH_SIZE

\* The task at index j has a failure outcome.
FailedAt(p, j) == p.results[j] # Hole /\ ~p.results[j].success

\* A step in which a task ends in failure: the outcome is typed and carries
\* the item, the other chains and results are untouched, the chain goes on.
C5_TaskFailureStep ==
    \A w \in DOMAIN pl.workers :
        (pc = "tasks" /\ pc' = "tasks" /\ pl.workers[w].idx # 0
           /\ ~FailedAt(pl, pl.workers[w].idx) /\ FailedAt(pl', pl.workers[w].idx))
        => LET idx == pl.workers[w].idx
           IN /\ pl'.results[idx].type \in {"apiError", "userError"}
              /\ pl'.results[idx].variantId = variantsData.items[idx]
              /\ \A v \in DOMAIN pl.workers : v # w => pl'.workers[v] = pl.workers[v]
              /\ \A j \in DOMAIN pl.results : j # idx => pl'.results[j] = pl.results[j]
              /\ IF pl.i < pl.n
                 THEN pl'.workers[w] = [idx |-> pl.i + 1,
                                        st |-> TaskStarts(variantsData.items)[pl.i + 1]]
                 ELSE pl'.workers[w].st = "done"
              /\ PLOutcome(pl') # "rejected"

\* A chain that leaves its task has stored an outcome for it: the task did
\* not throw past the limiter.
C5_TaskEndStep ==
    \A w \in DOMAIN pl.workers :
        (pc = "tasks" /\ pc' = "tasks" /\ pl.workers[w].idx # 0
           /\ pl'.workers[w] # pl.workers[w]
           /\ pl'.workers[w] # [idx |-> pl.workers[w].idx, st |-> "write"])
        => /\ pl'.results[pl.workers[w].idx] # Hole
           /\ pl'.workers[w].st # "rejected"

\* The fold of a batch: one error record per failed outcome, none of kind
\* batchError, every task counted, and the loop goes on if pages remain.
C5_FoldStep ==
    (pc = "tasks" /\ pc' # "tasks") =>
        /\ \A j \in DOMAIN pl.results :
              LET recs == {k \in DOMAIN progress'.errors :
                              progress'.errors[k].variantId = variantsData.items[j]}
              IN IF FailedAt(pl, j)
                 THEN /\ Cardinality(recs) = 1
                      /\ \A k \in recs : progress'.errors[k] = ItemErrorInfo(pl.results[j])
                 ELSE recs = {}
        /\ ~HasBatchError(progress'.errors)
        /\ progress'.processedVariants = progress.processedVariants + pl.n
        /\ pc' = IF variantsData.hasNextPage THEN "delay" ELSE "idle"

\* A finished run without page failure has processed the whole catalog.
C5_RunState ==
    (pc = "idle" /\ runs > 0 /\ ~HasBatchError(progress.errors))
        => progress.processedVariants = catalog

\* C5: a failed item task (levels fetch failure, write failure, validation
\* errors) ends with an apiError or userError outcome for its own item and
\* leaves the other tasks alone; the fold records exactly one error record
\* with the item's id and the outcome's kind, and no batchError; the chain
\* goes on with the next task, the batch with the next page, and a run
\* without page failure processes the whole catalog.
C5_ItemFailureNeverAborts ==
    [] C5_RunState /\ [][C5_TaskFailureStep /\ C5_TaskEndStep /\ C5_FoldStep]_vars

C5_Witness ==
    /\ pc = "idle"
    /\ catalog = MaxItems
    /\ progress.processedVariants = catalog
    /\ \E a, b \in DOMAIN progress.errors :
          /\ progress.errors[a] = ItemErrorInfo(ApiErrorResult(1))
          /\ progress.errors[b] = ItemErrorInfo(UserErrorResult(2))
    /\ ~HasBatchError(progress.errors)

\* C6: when a run has completed, processedCount (in the tracker and in the
\* summary) equals the number of item tasks the limiter admitted over all
\* batches, successful and failed alike.
C6_ProcessedEqualsAdmitted ==
    (pc = "idle" /\ runs > 0) =>
        /\ progress.processedVariants = admitted
        /\ progress.summary.processedVariants = admitted

C6_Witness ==
    /\ pc = "idle"
    /\ admitted = MaxItems
    /\ progress.processedVariants = admitted
    /\ Len(progress.errors) = 2

\* C7, as stated: whenever totalCount > 0, processedCount <= totalCount, for
\* any estimate and any number of enumerated items.
C7_ProcessedAtMostTotal ==
    progress.totalVariants > 0 => progress.processedVariants <= progress.totalVariants

\* C7, amended: whenever totalCount > 0 and the estimate is at least the
\* number of items pagination enumerates, processedCount <= totalCount.
C7_ProcessedAtMostTotalIfEstimateCovers ==
    (progress.totalVariants > 0 /\ progress.totalVariants >= catalog)
        => progress.processedVariants <= progress.totalVariants

C7_Witness ==
    /\ progress.totalVariants = catalog
    /\ catalog = MaxItems
    /\ progress.processedVariants = catalog

\* C8: while parallelLimit runs with limit k >= 1, at most k tasks are
\* started and not finished.
C8_AtMostLimitInFlight ==
    pl.limit >= 1 => Cardinality(InFlight(pl)) <= pl.limit

C8_Witness ==
    /\ pc = "limiter"
    /\ pl.limit >= 2
    /\ pl.n > pl.limit
    /\ Cardinality(InFlight(pl)) = pl.limit
    /\ Len(pl.finished) >= 1

\* C9: when every task succeeded, parallelLimit returns a sequence of length
\* n whose element i is the result of task i, whatever the completion order.
C9_ResultsInSubmissionOrder ==
    (pc = "limiter" /\ PLOutcome(pl) = "resolved") =>
        /\ ResultsLength(pl) = pl.n
        /\ \A j \in 1..pl.n : pl.results[j] = OkResult(j)

C9_Witness ==
    /\ pc = "limiter"
    /\ PLOutcome(pl) = "resolved"
    /\ pl.n >= 3
    /\ pl.finished[1] > pl.finished[2]

\* C10: when a task given to parallelLimit throws or rejects, the limiter
\* does not fail: once nothing is in flight every task has been started and
\* the call has returned one outcome per task.
C10_FailingTaskDoesNotFailLimiter ==
    (pc = "limiter" /\ InFlight(pl) = {}
       /\ \E w \in DOMAIN pl.workers : pl.workers[w].st = "rejected")
        => /\ Len(pl.started) = pl.n
           /\ PLOutcome(pl) = "resolved"

\* A status query answered: the only steps that put a progress body in resp.
\* (A query that repeats the previous body and changes nothing is a
\* stuttering step.)
Answered == resp' # resp /\ resp'.kind = "progress"

C11_State ==
    /\ summaries <= 1
    /\ (summaries = 1) <=> progress.summaryReturned
    /\ progress.summaryReturned
          => ~progress.isProcessing /\ progress.completedAt # 0 /\ ~bgRunning
    /\ (resp.kind = "progress" /\ resp.actionCompleted)
          => summaries = 1 /\ ~bgRunning /\ resp.summary.present

C11_Step ==
    [][ /\ Answered =>
            /\ resp'.actionCompleted <=> SummaryDueUnflagged(progress) /\ summaries = 0
            /\ resp'.actionCompleted =>
                   /\ resp'.success = progress.summary.success
                   /\ progress.summary.present
                   /\ summaries' = 1
            /\ ~resp'.actionCompleted =>
                   ~resp'.success /\ summaries' = summaries /\ progress' = progress
        /\ summaries' # summaries =>
               \/ summaries' = 0 /\ runs' = runs + 1
               \/ summaries' = summaries + 1 /\ resp'.kind = "progress"
                    /\ resp'.actionCompleted /\ runs' = runs ]_vars

\* C11: the first status query after a run completed is answered with the
\* summary fields and the completion marker, every later one until the next
\* run starts with the tracker alone; at most one response per run carries
\* the summary, and none while the run is going.
C11_SummaryExposedOnce == []C11_State /\ C11_Step

C11_Witness ==
    /\ runs = 2
    /\ pc = "idle"
    /\ summaries = 1
    /\ resp.kind = "progress"
    /\ ~resp.actionCompleted
    /\ resp.summary.present

C12_State ==
    /\ progress.completedAt # 0
          => ~progress.isProcessing /\ ~bgRunning /\ progress.summary.present
    /\ (pc = "idle" /\ runs > 0) => progress.completedAt # 0
    /\ pc # "idle" => progress.completedAt = 0

C12_Step ==
    [][ progress'.completedAt # progress.completedAt =>
           \/ /\ progress.completedAt = 0
              /\ progress.isProcessing /\ ~progress'.isProcessing
              /\ bgRunning /\ ~bgRunning'
              /\ progress'.summary.present
              /\ pc # "idle" /\ pc' = "idle"
              /\ runs' = runs
           \/ /\ progress'.completedAt = 0
              /\ runs' = runs + 1 ]_vars

\* C12: within one run completedAt is assigned once, by the step that ends
\* the run and clears isProcessing; in every state a status query can see,
\* completedAt set implies that nothing is running and the summary is there.
C12_CompletedAtOncePerRun == []C12_State /\ C12_Step

C12_Witness ==
    /\ runs = 2
    /\ pc = "idle"
    /\ progress.completedAt = 2
    /\ progress.summary.batchCount >= 2

C13_State ==
    /\ progress.isProcessing
          => /\ progress.completedAt = 0
             /\ ~progress.summary.present
             /\ ~progress.summaryReturned
             /\ progress.startedAt = runs
    /\ (progress.isProcessing /\ resp.kind = "progress")
          => ~resp.actionCompleted /\ ~resp.summary.present
    /\ (pc = "count")
          => /\ fetched = 0
             /\ progress.processedVariants = 0
             /\ progress.errors = << >>
             /\ progress.currentBatch = 0
             /\ progress.isProcessing

C13_Step ==
    [][ runs' = runs + 1 =>
           /\ progress' = [processedVariants |-> 0, totalVariants |-> 0,
                           isProcessing |-> TRUE, currentBatch |-> 0,
                           errors |-> << >>, startedAt |-> runs',
                           completedAt |-> 0, summary |-> NoSummary,
                           summaryReturned |-> FALSE]
           /\ fetched' = 0
           /\ pc' = "count" ]_vars

\* C13: an accepted start resets the tracker before any page is fetched
\* (processed 0, no errors, batch 0, processing), and no completedAt,
\* summary or one-shot flag of an earlier run is left for a status query
\* issued after the acceptance.
C13_AcceptedStartResetsTracker == []C13_State /\ C13_Step

C13_Witness ==
    /\ runs = 2
    /\ pc = "count"
    /\ resp.kind = "progress"
    /\ progress.isProcessing

\* C14: a run over a catalog of N > 0 variants in which no page fetch
\* failed performs ceil(N / BATCH_SIZE) batches, counts N variants, and
\* ends with currentBatch and the summary's batchCount at that number.
C14_BatchesAreCeilOfCatalog ==
    (pc = "idle" /\ runs > 0 /\ catalog > 0 /\ ~HasBatchError(progress.errors))
        => /\ batchCount = (catalog + BATCH_SIZE - 1) \div BATCH_SIZE
           /\ progress.currentBatch = batchCount
           /\ progress.summary.batchCount = batchCount
           /\ progress.processedVariants = catalog
           /\ progress.summary.processedVariants = catalog

C14_Witness ==
    /\ pc = "idle"
    /\ catalog = MaxItems
    /\ ~HasBatchError(progress.errors)
    /\ progress.currentBatch = (MaxItems + BATCH_SIZE - 1) \div BATCH_SIZE
    /\ progress.currentBatch > MaxItems \div BATCH_SIZE
    /\ progress.processedVariants = MaxItems

\* C15: a variant of a page that has no inventoryItem is skipped: no task
\* is built for it, it is not counted in processedVariants and it adds no
\* error record.
C15_UnitlessVariantSkipped ==
    /\ \A w \in DOMAIN pl.workers :
          (pc = "tasks" /\ pl.workers[w].idx # 0)
              => VariantOf(pl.workers[w].idx) # unitless
    /\ \A j \in DOMAIN progress.errors :
          unitless # 0 => progress.errors[j].variantId # unitless
    /\ (unitless # 0 /\ pc = "idle" /\ runs > 0)
          => progress.processedVariants < catalog

\* C16: a stored value that is present but malformed (unparseable, or
\* without a locations array) is treated like an absent one: the handler
\* that read it takes the bootstrap path and does not fail on it.
C16_MalformedSnapshotTreatedAsAbsent ==
    hnd.read \in {"garbage", "noloc"}
        => /\ hnd.metafieldsEmpty
           /\ hnd.error \notin {"SyntaxError", "TypeError"}

\* C17: a write that answers with userErrors, with errors, or rejects makes
\* the handler throw, and the webhook answers 500, never 200.
C17_FailedWriteAnswersFailure ==
    hnd.wrote \in {"userErrors", "errors", "rejected"}
        => hnd.status = 500 /\ hnd.error # ""

\* The first record of locations that is for location l (0: none).
RecordOf(locations, l) ==
    IF \E j \in DOMAIN locations : locations[j].id = l
    THEN CHOOSE j \in DOMAIN locations :
            locations[j].id = l /\ \A k \in 1..(j - 1) : locations[k].id # l
    ELSE 0

\* C18: merging a notification into a snapshot of m >= 1 records: when a
\* record for the payload's location exists it is replaced at its position
\* by a record with the payload's quantity as an integer (0 when not
\* numeric) and the others are unchanged (m records); otherwise the record
\* is appended after the m unchanged ones.
C18_MergeReplacesOrAppends ==
    [][ (hnd.pc = "locname" /\ hnd'.pc = "write" /\ hnd.currentData.locations # << >>)
          => LET before == hnd.currentData.locations
                 after == hnd'.currentData.locations
                 l == ParseInt(hnd.payload.location_id).v
                 new == [id |-> l, available |-> OrZero(ParseInt(hnd.payload.available))]
                 j == RecordOf(before, l)
             IN  IF j > 0
                 THEN after = [before EXCEPT ![j] = new]
                 ELSE after = Append(before, new) ]_vars

\* C19: the stored snapshot never holds two records with the same location
\* id, whatever notifications (location_id a number or a numeric string)
\* and full syncs were applied.
C19_NoDuplicateLocationIds ==
    \A i, j \in DOMAIN stored.locs :
        i # j => stored.locs[i].id # stored.locs[j].id

\* C20: a notification for an item without a stored snapshot whose
\* bootstrap query returned n >= 1 locations does not fail on them: the
\* handler goes on to write a snapshot of exactly those n records, without
\* merging the payload, and answers 200 once the write is applied.
C20_BootstrapWritesFetchedLocations ==
    (hnd.read = "absent" /\ hnd.edges >= 1)
        => /\ hnd.error # "TypeError"
           /\ hnd.pc = "write" => Len(hnd.currentData.locations) = hnd.edges
           /\ hnd.wrote = "ok" => hnd.status = 200

C21_State ==
    hnd.error = "Variant not found"
        => /\ hnd.pc = "done"
           /\ hnd.status = 500
           /\ hnd.read = "none"
           /\ hnd.edges = -1
           /\ hnd.wrote = "none"

C21_Step ==
    [][ (hnd'.error = "Variant not found" /\ hnd.error # "Variant not found")
          => /\ hnd.pc = "variant"
             /\ hnd'.pc = "done"
             /\ stored' = stored ]_vars

\* C21: when the inventory item of a notification resolves to no variant,
\* the handler throws "Variant not found" straight after the variant query:
\* no metafield is read, no bootstrap or location query and no write is
\* sent, the webhook answers 500, and the stored snapshot and the next
\* notification are not affected.
C21_VariantNotFoundFailsEarly == []C21_State /\ C21_Step

C21_Witness ==
    /\ hnd.error = "Variant not found"
    /\ hnd.status = 500
    /\ stored.kind = "snap"
    /\ Len(stored.locs) >= 2

C22_State ==
    pc \in {"page", "delay"}
        => /\ pl = NoPL
           /\ variantsData = NoPage
           /\ processedVariants = admitted
           /\ progress.processedVariants = admitted

C22_Step ==
    [][ /\ fetched' = fetched + 1
           => /\ pc \in {"count", "delay"}
              /\ fetched > 0 => pc = "delay"
              /\ pl = NoPL
              /\ progress.processedVariants = admitted
        /\ (pc' = "delay" /\ pc # "delay")
           => /\ pc = "tasks"
              /\ InFlight(pl) = {}
              /\ Len(pl.finished) = pl.n ]_vars

\* C22: the fetch of the next page is issued only after every item task of
\* the current page has completed, its results have been folded into the
\* tracker, and the delay between batches has elapsed; no page is fetched
\* while tasks of a page are pending.
C22_NextPageAfterFoldAndDelay == []C22_State /\ C22_Step

C22_Witness ==
    /\ pc = "page"
    /\ fetched = 3
    /\ admitted = 2 * BATCH_SIZE
    /\ progress.processedVariants = admitted

\* C23: a notification for an item without a stored snapshot whose
\* bootstrap query returned no location does not fail: the handler skips
\* the merge and goes on to write a snapshot without the notified location.
C23_EmptyBootstrapSkipsMerge ==
    (hnd.read = "absent" /\ hnd.edges = 0)
        => /\ hnd.error \in {"", "Failed to update metafield", "rejected"}
           /\ hnd.pc = "done" => hnd.wrote # "none"
           /\ hnd.pc = "write" => hnd.currentData.locations = << >>

NoTaskFailed(p) == \A w \in DOMAIN p.workers : p.workers[w].st # "rejected"

C24_State ==
    (pl.limit >= 1 /\ NoTaskFailed(pl))
        => /\ \A j \in DOMAIN pl.started : pl.started[j] = j
           /\ Len(pl.started) = Min(pl.n, Min(pl.limit, pl.n) + Len(pl.finished))
           /\ PLOutcome(pl) = "resolved" => Len(pl.started) = pl.n

C24_Step ==
    [][ (pl.limit >= 1 /\ pl'.limit = pl.limit /\ NoTaskFailed(pl')
           /\ Len(pl'.started) # Len(pl.started))
          => /\ Len(pl'.started) = Len(pl.started) + 1
             /\ Len(pl'.finished) = Len(pl.finished) + 1 ]_vars

\* C24: parallelLimit with limit k >= 1 and no failing task starts every
\* task exactly once, in increasing index order; after the first min(k, n)
\* it starts a task only in the step in which a running task completes.
C24_AdmissionInOrderOnCompletion == []C24_State /\ C24_Step

C24_Witness ==
    /\ pc = "limiter"
    /\ PLOutcome(pl) = "resolved"
    /\ pl.limit >= 2
    /\ pl.n > pl.limit
    /\ Len(pl.started) = pl.n
    /\ pl.finished[1] = 2

C25_State ==
    /\ pc = "idle" => ~bgRunning /\ StartGuard
    /\ (pc = "idle" /\ runs > 0)
          => /\ ~progress.isProcessing
             /\ progress.completedAt # 0
             /\ progress.summary.present
    /\ pc # "idle" => bgRunning

C25_Eventually ==
    bgRunning ~> (/\ ~bgRunning
                  /\ ~progress.isProcessing
                  /\ progress.completedAt # 0
                  /\ progress.summary.present)

\* C25: every accepted run eventually ends, with the running flag cleared
\* and completedAt and the summary set, whether the pages were exhausted
\* or a page fetch failed; once it has ended a start request is accepted
\* again.
C25_RunTerminates == []C25_State /\ C25_Eventually

C25_Witness ==
    /\ runs = 2
    /\ pc = "count"
    /\ bgRunning
    /\ resp.kind = "started"
    /\ catalog = MaxItems

\* The snapshot value has a record of location loc with quantity qty.
HasRecord(value, loc, qty) ==
    \E j \in DOMAIN value.locs :
        value.locs[j].id = loc /\ value.locs[j].available = qty

\* Both requests read a snapshot, merged their record into it and had their
\* write applied, for two different locations.
BothApplied ==
    /\ hnd.pc = "done" /\ hnd.read = "snap" /\ hnd.wrote = "ok"
    /\ hnd2.pc = "done" /\ hnd2.read = "snap" /\ hnd2.wrote = "ok"
    /\ notes.first.location_id # notes.second.location_id

\* C26: when two notifications for two different locations of the same item
\* are handled at the same time and both handlers complete with their write
\* applied, the stored snapshot holds the quantity of each notification at
\* its location: no update is lost.
C26_NoLostUpdate ==
    BothApplied =>
        /\ HasRecord(stored, notes.first.location_id.v, OrZero(notes.first.available))
        /\ HasRecord(stored, notes.second.location_id.v, OrZero(notes.second.available))

C27_State == progress.isProcessing <=> bgRunning

C27_Step ==
    [][ /\ (Answered /\ ~progress'.isProcessing) => ~bgRunning'
        /\ (bgRunning' # bgRunning) => (progress'.isProcessing # progress.isProcessing)
      ]_vars

\* C27: wherever another request can be interleaved, the progress flag and
\* the mutual-exclusion flag agree (isProcessing is true exactly when
\* isRunning is true): the two change in the same step, and when a status
\* query reports "not processing" the guard of a start request is open.
C27_FlagsAgree == []C27_State /\ C27_Step

C27_Witness ==
    /\ runs = 1
    /\ ~bgRunning
    /\ ~progress.isProcessing
    /\ resp.kind = "progress"
    /\ resp.actionCompleted
    /\ StartGuard

\* In a batch in progress, the write was sent for the items whose task is
\* at the write or ended with success or userError, and for no item whose
\* task still waits for its levels or has no inventory item.
C28_State ==
    pc = "tasks" =>
        /\ \A w \in DOMAIN pl.workers :
              /\ pl.workers[w].st = "write" => VariantOf(pl.workers[w].idx) \in writes
              /\ pl.workers[w].st \in {"fetch", "nounit"}
                    => VariantOf(pl.workers[w].idx) \notin writes
        /\ \A j \in DOMAIN pl.results :
              (pl.results[j] # Hole /\ pl.results[j] # ApiErrorResult(VariantOf(j)))
                  => VariantOf(j) \in writes
        /\ writes \subseteq {VariantOf(j) : j \in DOMAIN variantsData.items}

\* A task that waits for its levels leaves that position in one of two
\* ways: the write is sent and the task waits for it, without an outcome
\* yet, or no write is sent and the outcome is apiError.  No other step
\* sends a write.
C28_Step ==
    (pc = "tasks" /\ pc' = "tasks") =>
        /\ \A w \in DOMAIN pl.workers :
              (pl.workers[w].st = "fetch" /\ pl'.workers[w] # pl.workers[w])
                  => LET idx == pl.workers[w].idx
                     IN IF VariantOf(idx) \in writes'
                        THEN /\ pl'.workers[w] = [idx |-> idx, st |-> "write"]
                             /\ pl'.results[idx] = Hole
                        ELSE /\ pl'.results[idx] = ApiErrorResult(VariantOf(idx))
                             /\ writes' = writes
        /\ writes' # writes
              => \E w \in DOMAIN pl.workers :
                    /\ pl.workers[w].st = "fetch"
                    /\ pl'.workers[w] = [pl.workers[w] EXCEPT !.st = "write"]
                    /\ writes' = writes \cup {VariantOf(pl.workers[w].idx)}

\* C28: in a full-sync item task the snapshot write is sent only after the
\* item's levels arrived; when the levels fetch fails or answers with
\* errors, no write is sent for the item (its stored snapshot, which only
\* that write changes, stays as it was) and the task's outcome is apiError.
C28_WriteOnlyAfterFetch == []C28_State /\ [][C28_Step]_vars

C28_Witness ==
    /\ pc = "tasks"
    /\ pl.n = BATCH_SIZE
    /\ pl.results[1] = ApiErrorResult(VariantOf(1))
    /\ VariantOf(1) \notin writes
    /\ pl.results[2] = OkResult(VariantOf(2))
    /\ VariantOf(2) \in writes
    /\ unitless = 0

====
